---------------------------- MODULE Spec2Model ----------------------------
(***************************************************************************)
(* codestat (src/bin.js): a recursive scan of a directory tree that        *)
(* counts files, lines and bytes of the files with a recognised extension  *)
(* and reports the ten longest files and the ten most frequent extensions. *)
(*                                                                         *)
(* A file name is a sequence of one-character strings, a path a sequence   *)
(* of names.  The directory tree is a sequence of nodes in depth-first     *)
(* listing order; node 0 is the root folder given on the command line.     *)
(***************************************************************************)
EXTENDS Integers, Sequences, FiniteSets, TLC

(***************************************************************************)
(* Bounds of the model.                                                    *)
(***************************************************************************)
\* nodes of a nested tree (besides the root)
MaxNodes == 3
\* files of a flat tree (a root holding only files)
MaxWide == 11
\* characters of a file name drawn for classification
MaxNameLen == 4

(***************************************************************************)
(* Program constants.                                                      *)
(***************************************************************************)
\* .slice(0, 10) of topFiles and topExtensions
TopK == 10
\* humanReadableSize: bytes per kilobyte
KB == 1024

(***************************************************************************)
(* Strings as sequences of characters.                                     *)
(***************************************************************************)
Upper == <<"A","B","C","D","E","F","G","H","I","J","K","L","M",
           "N","O","P","Q","R","S","T","U","V","W","X","Y","Z">>
Lower == <<"a","b","c","d","e","f","g","h","i","j","k","l","m",
           "n","o","p","q","r","s","t","u","v","w","x","y","z">>

\* String.prototype.toLowerCase on one character
LowerChar(c) ==
  IF \E k \in 1..Len(Upper) : Upper[k] = c
  THEN Lower[CHOOSE k \in 1..Len(Upper) : Upper[k] = c]
  ELSE c

\* String.prototype.toLowerCase
ToLowerCase(s) == [k \in 1..Len(s) |-> LowerChar(s[k])]

\* String.prototype.slice(1)
Slice1(s) == SubSeq(s, 2, Len(s))

\* the 1-based index of the last "." of s, 0 when there is none
LastDot(s) ==
  IF \E k \in 1..Len(s) : s[k] = "."
  THEN CHOOSE k \in 1..Len(s) : s[k] = "." /\ \A m \in (k+1)..Len(s) : s[m] # "."
  ELSE 0

\* path.extname of a path whose last component is base: the text from the
\* last "." on, and "" when there is no ".", when the only "." is the first
\* character, and for ".."
ExtName(base) ==
  LET d == LastDot(base) IN
  IF d = 0 \/ d = 1 \/ base = <<".", ".">> THEN <<>>
  ELSE SubSeq(base, d, Len(base))

\* path.basename, line 75: the text behind the last "/"
BaseName(fullPath) ==
  IF \E k \in 1..Len(fullPath) : fullPath[k] = "/"
  THEN LET k == CHOOSE j \in 1..Len(fullPath) :
                  fullPath[j] = "/" /\ \A m \in (j+1)..Len(fullPath) : fullPath[m] # "/"
       IN SubSeq(fullPath, k+1, Len(fullPath))
  ELSE fullPath

\* line 80: path.extname(fullPath).slice(1).toLowerCase(), each call applied
\* to the value of the one before
ExtOf(fullPath) ==
  CHOOSE ext \in {ToLowerCase(sliced) :
                   sliced \in {Slice1(dotted) :
                     dotted \in {ExtName(base) :
                       base \in {BaseName(p) : p \in {fullPath}}}}} : TRUE

\* the segments of content.split("\n")
RECURSIVE SplitNL(_)
SplitNL(content) ==
  IF \E k \in 1..Len(content) : content[k] = "\n"
  THEN LET k == CHOOSE j \in 1..Len(content) :
                  content[j] = "\n" /\ \A m \in 1..(j-1) : content[m] # "\n"
       IN <<SubSeq(content, 1, k-1)>> \o SplitNL(SubSeq(content, k+1, Len(content)))
  ELSE <<content>>

\* line 89: fileContent.split("\n").length
CountLines(content) == Len(SplitNL(content))

(***************************************************************************)
(* The allow-list of extensions, lines 9-49.                               *)
(***************************************************************************)
CODE_FILE_EXTENSIONS == {
  <<"j","s">>, <<"t","s">>, <<"j","s","x">>, <<"t","s","x">>, <<"p","y">>, <<"j","a","v","a">>,
  <<"r","b">>, <<"p","h","p">>, <<"g","o">>, <<"r","s">>, <<"c">>, <<"c","p","p">>, <<"c","s">>,
  <<"s","w","i","f","t">>, <<"k","t">>, <<"k","t","s">>, <<"h","t","m","l">>, <<"c","s","s">>,
  <<"s","c","s","s">>, <<"s","a","s","s">>, <<"l","e","s","s">>, <<"v","u","e">>,
  <<"s","v","e","l","t","e">>, <<"d","a","r","t">>, <<"r">>, <<"p","l">>, <<"l","u","a">>,
  <<"s","c","a","l","a">>, <<"e","r","l">>, <<"e","x">>, <<"e","x","s">>, <<"h","s">>, <<"m","l">>,
  <<"m","l","i">>, <<"n","i","m">>, <<"e","l","m">>, <<"c","l","j">>, <<"c","l","j","s">>,
  <<"c","o","f","f","e","e">>, <<"j","s","o","n">>, <<"y","m","l">>, <<"y","a","m","l">>,
  <<"x","m","l">>, <<"t","o","m","l">>, <<"i","n","i">>, <<"c","o","n","f">>,
  <<"c","o","n","f","i","g">>, <<"p","r","o","p","e","r","t","i","e","s">>,
  <<"p","l","i","s","t">>, <<"e","n","v">>, <<"l","o","c","k">>, <<"c","s","v">>, <<"t","s","v">>,
  <<"n","d","j","s","o","n">>, <<"a","v","r","o">>, <<"p","a","r","q","u","e","t">>,
  <<"o","r","c">>, <<"s","h">>, <<"b","a","s","h">>, <<"z","s","h">>, <<"f","i","s","h">>,
  <<"b","a","t">>, <<"c","m","d">>, <<"p","s","1">>, <<"m","d">>,
  <<"m","a","r","k","d","o","w","n">>, <<"t","x","t">>, <<"r","s","t">>,
  <<"a","s","c","i","i","d","o","c">>, <<"a","d","o","c">>, <<"o","r","g">>,
  <<"c","r","e","o","l","e">>, <<"s","q","l">>, <<"p","r","i","s","m","a">>,
  <<"g","r","a","p","h","q","l">>, <<"g","q","l">>, <<"h","b","s">>,
  <<"h","a","n","d","l","e","b","a","r","s">>, <<"e","j","s">>, <<"p","u","g">>,
  <<"j","a","d","e">>, <<"m","u","s","t","a","c","h","e">>, <<"j","i","n","j","a">>,
  <<"j","i","n","j","a","2">>, <<"n","j","k">>, <<"l","i","q","u","i","d">>, <<"t","w","i","g">>,
  <<"s","p","e","c",".","j","s">>, <<"t","e","s","t",".","j","s">>,
  <<"s","p","e","c",".","t","s">>, <<"t","e","s","t",".","t","s">>,
  <<"s","t","o","r","y",".","j","s">>, <<"s","t","o","r","y",".","t","s">>,
  <<"d","o","c","k","e","r","f","i","l","e">>, <<"d","o","c","k","e","r","i","g","n","o","r","e">>,
  <<"c","o","m","p","o","s","e",".","y","m","l">>,
  <<"c","o","m","p","o","s","e",".","y","a","m","l">>, <<"k","8","s",".","y","m","l">>,
  <<"k","8","s",".","y","a","m","l">>, <<"g","i","t","i","g","n","o","r","e">>,
  <<"g","i","t","a","t","t","r","i","b","u","t","e","s">>,
  <<"e","d","i","t","o","r","c","o","n","f","i","g">>, <<"t","r","a","v","i","s",".","y","m","l">>,
  <<"c","i","r","c","l","e","c","i",".","y","m","l">>, <<"g","i","t","h","u","b",".","y","m","l">>,
  <<"g","i","t","l","a","b","-","c","i",".","y","m","l">>,
  <<"j","e","n","k","i","n","s","f","i","l","e">>, <<"p","i","p","e","l","i","n","e">>,
  <<"p","a","c","k","a","g","e",".","j","s","o","n">>,
  <<"p","a","c","k","a","g","e","-","l","o","c","k",".","j","s","o","n">>,
  <<"y","a","r","n",".","l","o","c","k">>,
  <<"p","n","p","m","-","l","o","c","k",".","y","a","m","l">>,
  <<"c","o","m","p","o","s","e","r",".","j","s","o","n">>, <<"w","o","r","k","s","p","a","c","e">>,
  <<"w","o","r","k","s","p","a","c","e",".","j","s","o","n">>,
  <<"c","o","d","e","-","w","o","r","k","s","p","a","c","e">>,
  <<"s","e","t","t","i","n","g","s",".","j","s","o","n">>, <<"w","a","s","m">>, <<"s","o">>,
  <<"d","l","l">>, <<"e","x","e">>, <<"b","i","n">>
}

\* the directory names that are never entered, line 76
NodeModules == <<"n","o","d","e","_","m","o","d","u","l","e","s">>
DotGit == <<".","g","i","t">>

(***************************************************************************)
(* The file system: what readdir, readFile and stat answer for an entry.   *)
(*   id        the entry's key in the catalog of entries                   *)
(*   kind      "dir", "file", or "other" (a symbolic link, a socket, ...:  *)
(*             a Dirent for which isDirectory() and isFile() are false)    *)
(*   listable  readdir of the directory succeeds                           *)
(*   readOk    readFile succeeds, with content                             *)
(*   statOk    stat succeeds, with size                                    *)
(***************************************************************************)
\* the characters of s as one string
RECURSIVE Str(_)
Str(s) == IF s = <<>> THEN "" ELSE s[1] \o Str(Tail(s))

DirNode(nm, ok) ==
  [id |-> Str(nm), kind |-> "dir", name |-> nm, listable |-> ok,
   readOk |-> FALSE, content |-> <<>>, statOk |-> FALSE, size |-> 0]

FileNode(id, nm, rOk, text, sOk, sz) ==
  [id |-> id, kind |-> "file", name |-> nm, listable |-> FALSE,
   readOk |-> rOk, content |-> text, statOk |-> sOk, size |-> sz]

OtherNode(nm) ==
  [id |-> Str(nm), kind |-> "other", name |-> nm, listable |-> FALSE,
   readOk |-> TRUE, content |-> <<"x">>, statOk |-> TRUE, size |-> 1]

\* the entries a nested tree is built from
DeepEntries == {
  DirNode(<<"s","r","c">>, TRUE),
  DirNode(<<"l","i","b">>, FALSE),
  DirNode(NodeModules, TRUE),
  DirNode(DotGit, TRUE),
  FileNode("main.js", <<"m","a","i","n",".","j","s">>, TRUE, <<"x","\n","y","\n">>, TRUE, 4),
  FileNode("util.py", <<"u","t","i","l",".","p","y">>, FALSE, <<>>, TRUE, 2),
  FileNode("notes.md", <<"n","o","t","e","s",".","m","d">>, TRUE, <<>>, FALSE, 0),
  FileNode("data.zzz", <<"d","a","t","a",".","z","z","z">>, TRUE, <<"x","\n","y">>, TRUE, 3),
  OtherNode(<<"l","i","n","k",".","j","s">>)
}

\* allow-listed extensions, one per file of a flat tree
OwnExt == << <<"j","s">>, <<"t","s">>, <<"p","y">>, <<"r","b">>, <<"g","o">>,
             <<"r","s">>, <<"c">>, <<"c","s">>, <<"k","t">>, <<"m","d">>,
             <<"s","h">>, <<"r">>, <<"p","l">>, <<"h","s">>, <<"m","l">>,
             <<"e","x">> >>

\* file i of a flat tree, with its own extension and one line
OwnFile(i, rOk, sOk) ==
  FileNode(Lower[i] \o "." \o Str(OwnExt[i])
             \o (IF rOk THEN "" ELSE " unreadable") \o (IF sOk THEN "" ELSE " no stat"),
           <<Lower[i], ".">> \o OwnExt[i], rOk, <<"x">>, sOk, 1)

\* file i of a flat tree, with the extension TS and two lines
SharedFile(i) ==
  FileNode(Lower[i] \o ".TS", <<Lower[i], ".", "T", "S">>, TRUE, <<"x","\n","y">>, TRUE, 3)

\* the entries a flat tree is built from
WideEntries ==
  {OwnFile(i, TRUE, TRUE) : i \in 1..MaxWide} \cup {SharedFile(i) : i \in 1..MaxWide}
  \cup {OwnFile(1, FALSE, TRUE), OwnFile(1, TRUE, FALSE)}

\* the characters file names are drawn from for classification
NameChars == {".", "r", "s", "R"}

\* the names of up to n characters; readdir returns neither "." nor ".."
RECURSIVE NamesOf(_)
NamesOf(n) ==
  IF n = 0 THEN {<<>>}
  ELSE {<<>>} \cup {<<c>> \o rest : c \in NameChars, rest \in NamesOf(n-1)}

Names == NamesOf(MaxNameLen) \ {<<>>, <<".">>, <<".", ".">>}

\* a readable one-line file of each name
NamedEntries == {FileNode(Str(nm), nm, TRUE, <<"x">>, TRUE, 1) : nm \in Names}

AllEntries == DeepEntries \cup WideEntries \cup NamedEntries

\* every entry by its id
Catalog == [id \in {e.id : e \in AllEntries} |-> CHOOSE e \in AllEntries : e.id = id]

\* node j and its ancestors, the root 0 included; a tree is a sequence of
\* [parent, id] in listing order
RECURSIVE AncSelf(_, _)
AncSelf(t, j) == IF j = 0 THEN {0} ELSE {j} \cup AncSelf(t, t[j].parent)

\* the directories a node appended to t may lie in, so that the order of the
\* sequence is the depth-first listing order
OpenDirs(t) ==
  IF Len(t) = 0 THEN {0}
  ELSE {j \in AncSelf(t, Len(t)) : j = 0 \/ Catalog[t[j].id].kind = "dir"}

\* whether entry e may follow the nodes of t as a node of directory p: p is
\* open and holds no entry of that name
MayFollow(t, p, e) ==
  /\ p \in OpenDirs(t)
  /\ \A j \in 1..Len(t) : t[j].parent = p => Catalog[t[j].id].name # e.name

\* nested trees of exactly n nodes
RECURSIVE DeepTreesOf(_)
DeepTreesOf(n) ==
  IF n = 0 THEN {<<>>}
  ELSE {Append(x[1], [parent |-> x[2], id |-> x[3].id]) :
          x \in {y \in DeepTreesOf(n-1) \X (0..(n-1)) \X DeepEntries :
                   MayFollow(y[1], y[2], y[3])}}

DeepTrees == UNION {DeepTreesOf(n) : n \in 0..MaxNodes}

\* flat trees of n files, each OwnFile or SharedFile
RECURSIVE WideTreesOf(_)
WideTreesOf(n) ==
  IF n = 0 THEN {<<>>}
  ELSE {Append(t, [parent |-> 0, id |-> f.id]) :
          t \in WideTreesOf(n-1), f \in {OwnFile(n, TRUE, TRUE), SharedFile(n)}}

\* the flat tree of n files with their own extensions, the first one f
AllOwn(n, f) ==
  [i \in 1..n |-> [parent |-> 0, id |-> IF i = 1 THEN f.id ELSE OwnFile(i, TRUE, TRUE).id]]

\* flat trees; the first file of a tree of own extensions may be unreadable
\* or without metadata
WideTrees ==
  UNION {WideTreesOf(n)
         \cup {AllOwn(n, OwnFile(1, FALSE, TRUE)), AllOwn(n, OwnFile(1, TRUE, FALSE))} :
         n \in 1..MaxWide}

\* the command line and the file system of one run: no argument; a root that
\* cannot be listed; a root holding a tree
Inputs ==
  {[arg |-> FALSE, rootOk |-> TRUE, t |-> <<>>],
   [arg |-> TRUE, rootOk |-> FALSE, t |-> <<>>]}
  \cup {[arg |-> TRUE, rootOk |-> TRUE, t |-> t] : t \in DeepTrees \cup WideTrees}

\* a root holding one file, of any name
NamedInputs ==
  {[arg |-> TRUE, rootOk |-> TRUE, t |-> <<[parent |-> 0, id |-> e.id]>>] : e \in NamedEntries}

(***************************************************************************)
(* The state of one run of the program.                                    *)
(***************************************************************************)
VARIABLES
  hasArg,          \* process.argv[2] is given
  rootListable,    \* readdir(folderPath) succeeds
  tree,            \* the nodes below folderPath, in listing order
  pc,              \* "main", "scan", "report", "exited"
  stack,           \* the calls of analyzeDir in progress, innermost last
  totalLines, totalFiles, totalSize,
  fileLines,       \* sequence of [file, lines]
  extensionsCount, \* sequence of [ext, count], in order of insertion
  topFiles, topExtensions,
  stdout, stderr,  \* what console.log, console.warn and console.error wrote
  exitCode,        \* -1 while the process runs
  visited          \* history: the nodes the loop of line 70 has iterated over

vars == <<hasArg, rootListable, tree, pc, stack, totalLines, totalFiles, totalSize,
          fileLines, extensionsCount, topFiles, topExtensions, stdout, stderr,
          exitCode, visited>>

fsVars == <<hasArg, rootListable, tree>>
accVars == <<totalLines, totalFiles, totalSize, fileLines, extensionsCount>>
outVars == <<topFiles, topExtensions, stdout, stderr, exitCode>>

\* what the file system holds at node j
Node(j) == Catalog[tree[j].id]

\* the entries readdir(d) returns: the nodes of directory d, in listing order
RECURSIVE ReadDirFrom(_, _)
ReadDirFrom(d, j) ==
  IF j > Len(tree) THEN <<>>
  ELSE (IF tree[j].parent = d THEN <<j>> ELSE <<>>) \o ReadDirFrom(d, j+1)

ReadDir(d) == ReadDirFrom(d, 1)

\* line 71: path.join(directory, entry.name), below folderPath
RECURSIVE FullPath(_)
FullPath(j) ==
  IF tree[j].parent = 0 THEN Node(j).name
  ELSE FullPath(tree[j].parent) \o <<"/">> \o Node(j).name

\* the state when main starts, on input in
InitOn(in) ==
  /\ hasArg = in.arg
  /\ rootListable = in.rootOk
  /\ tree = in.t
  /\ pc = "main"
  /\ stack = <<>>
  /\ totalLines = 0 /\ totalFiles = 0 /\ totalSize = 0
  /\ fileLines = <<>>
  /\ extensionsCount = <<>>
  /\ topFiles = <<>> /\ topExtensions = <<>>
  /\ stdout = <<>> /\ stderr = <<>>
  /\ exitCode = -1
  /\ visited = <<>>

Init == \E in \in Inputs : InitOn(in)

\* the runs that classify one file name
ClassifyInit == \E in \in NamedInputs : InitOn(in)

(***************************************************************************)
(* Helpers of the scan.                                                    *)
(***************************************************************************)
Top == stack[Len(stack)]

\* a call of analyzeDir(directory): readdir is awaited first
NewFrame(d) == [dir |-> d, listed |-> FALSE, entries |-> <<>>, i |-> 1]

\* whether readdir of directory d succeeds
Listable(d) == IF d = 0 THEN rootListable ELSE Node(d).listable

\* the frame at the top of the stack replaced by f
SetTop(f) == [stack EXCEPT ![Len(stack)] = f]

\* line 76 with the second comparison left out
IsIgnoredOnlyNodeModules(dirName) == dirName = NodeModules

\* line 76: the directories that are not entered
IsIgnored(dirName) == dirName = NodeModules \/ dirName = DotGit

\* line 83: CODE_FILE_EXTENSIONS.has(ext)
IsCodeFile(fullPath) == ExtOf(fullPath) \in CODE_FILE_EXTENSIONS

\* line 98: extensionsCount[ext] = (extensionsCount[ext] || 0) + 1; a new key
\* is inserted last
CountExtension(counts, ext) ==
  IF \E k \in 1..Len(counts) : counts[k].ext = ext
  THEN [k \in 1..Len(counts) |->
          IF counts[k].ext = ext
          THEN [counts[k] EXCEPT !.count = @ + 1] ELSE counts[k]]
  ELSE Append(counts, [ext |-> ext, count |-> 1])

\* x put in front of the elements that are not greater: equal elements end
\* up in reverse order
RECURSIVE InsertDescUnstable(_, _, _)
InsertDescUnstable(sorted, x, key) ==
  IF sorted = <<>> THEN <<x>>
  ELSE IF sorted[1][key] > x[key]
       THEN <<sorted[1]>> \o InsertDescUnstable(Tail(sorted), x, key)
       ELSE <<x>> \o sorted

\* x put into the descending sequence sorted, behind the elements whose field
\* key is not smaller: Array.prototype.sort is stable
RECURSIVE InsertDesc(_, _, _)
InsertDesc(sorted, x, key) ==
  IF sorted = <<>> THEN <<x>>
  ELSE IF sorted[1][key] >= x[key]
       THEN <<sorted[1]>> \o InsertDesc(Tail(sorted), x, key)
       ELSE <<x>> \o sorted

\* the elements of rest put one by one into the descending sequence sorted
RECURSIVE SortDescFrom(_, _, _)
SortDescFrom(sorted, rest, key) ==
  IF rest = <<>> THEN sorted
  ELSE CHOOSE result \in {SortDescFrom(longer, Tail(rest), key) :
                            longer \in {InsertDesc(sorted, rest[1], key)}} : TRUE

\* line 110: fileLines.sort((a, b) => b.lines - a.lines)
SortByLines(files) == SortDescFrom(<<>>, files, "lines")

\* the entries left in order of insertion
SortByCountNot(counts) == counts

\* line 114: Object.entries(extensionsCount).sort((a, b) => b[1] - a[1])
SortByCount(counts) == SortDescFrom(<<>>, counts, "count")

\* the lists left uncut
SliceNone(seq) == seq

\* lines 110, 115: .slice(0, 10)
Slice10(seq) == SubSeq(seq, 1, IF Len(seq) < TopK THEN Len(seq) ELSE TopK)

\* (x).toFixed(2) of h hundredths
Fixed2(h) ==
  ToString(h \div 100) \o "." \o (IF h % 100 < 10 THEN "0" ELSE "") \o ToString(h % 100)

\* lines 126-130; toFixed rounds the exact quotient to the nearest hundredth,
\* a tie upwards
HumanReadableSize(size) ==
  IF size < KB THEN ToString(size) \o " B"
  ELSE IF size < KB * KB
       THEN Fixed2((size * 200 + KB) \div (2 * KB)) \o " KB"
       ELSE Fixed2((size * 200 + KB * KB) \div (2 * KB * KB)) \o " MB"

\* one call of console.log, console.warn or console.error
Msg(tag, n, s) == [tag |-> tag, n |-> n, s |-> s]

(***************************************************************************)
(* main, lines 133-166.                                                    *)
(***************************************************************************)
\* lines 136-139: no folder given
Usage ==
  /\ pc = "main"
  /\ ~hasArg
  /\ stderr' = Append(stderr, Msg("usage", 0, ""))
  /\ exitCode' = 1
  /\ pc' = "exited"
  /\ UNCHANGED <<fsVars, stack, accVars, topFiles, topExtensions, stdout, visited>>

\* lines 142-143, 61-65, 107: analyzeFolder starts with empty accumulators and
\* calls analyzeDir(folderPath)
CallAnalyzeFolder ==
  /\ pc = "main"
  /\ hasArg
  /\ pc' = "scan"
  /\ totalLines' = 0 /\ totalFiles' = 0 /\ totalSize' = 0
  /\ fileLines' = <<>>
  /\ extensionsCount' = <<>>
  /\ stack' = <<NewFrame(0)>>
  /\ UNCHANGED <<fsVars, outVars, visited>>

\* lines 145-161: the report, then the process ends with exit code 0
PrintReport ==
  /\ pc = "report"
  /\ stdout' = stdout
       \o <<Msg("blank", 0, ""), Msg("banner", 0, ""),
            Msg("totalLines", totalLines, ""),
            Msg("totalFiles", totalFiles, ""),
            Msg("totalSize", 0, HumanReadableSize(totalSize)),
            Msg("blank", 0, ""), Msg("topFilesTitle", 0, "")>>
       \o [k \in 1..Len(topFiles) |-> Msg("file", topFiles[k].lines, topFiles[k].file)]
       \o <<Msg("blank", 0, ""), Msg("topExtensionsTitle", 0, "")>>
       \o [k \in 1..Len(topExtensions) |->
             Msg("ext", topExtensions[k].count, Str(topExtensions[k].ext))]
  /\ exitCode' = 0
  /\ pc' = "exited"
  /\ UNCHANGED <<fsVars, stack, accVars, topFiles, topExtensions, stderr, visited>>

(***************************************************************************)
(* analyzeDir, lines 67-105.                                               *)
(***************************************************************************)
\* line 68: readdir succeeds
ListDir ==
  /\ pc = "scan"
  /\ ~Top.listed
  /\ Listable(Top.dir)
  /\ stack' = SetTop([Top EXCEPT !.listed = TRUE, !.entries = ReadDir(Top.dir)])
  /\ UNCHANGED <<fsVars, pc, accVars, outVars, visited>>

\* line 68 in a try block that warns and treats the directory as empty
ListDirSkips ==
  /\ pc = "scan"
  /\ ~Top.listed
  /\ ~Listable(Top.dir)
  /\ stack' = SetTop([Top EXCEPT !.listed = TRUE])
  /\ stderr' = Append(stderr, Msg("warning", 0, IF Top.dir = 0 THEN "." ELSE Str(FullPath(Top.dir))))
  /\ UNCHANGED <<fsVars, pc, accVars, topFiles, topExtensions, stdout, exitCode, visited>>

\* line 68: readdir fails; nothing catches the rejection before main, lines
\* 162-165
ListDirFails ==
  /\ pc = "scan"
  /\ ~Top.listed
  /\ ~Listable(Top.dir)
  /\ stack' = <<>>
  /\ stderr' = Append(stderr, Msg("error", 0, IF Top.dir = 0 THEN "." ELSE Str(FullPath(Top.dir))))
  /\ exitCode' = 1
  /\ pc' = "exited"
  /\ UNCHANGED <<fsVars, accVars, topFiles, topExtensions, stdout, visited>>

\* the loop of line 70 has an entry left
HasEntry == pc = "scan" /\ Top.listed /\ Top.i <= Len(Top.entries)

Entry == Top.entries[Top.i]

NextEntry == SetTop([Top EXCEPT !.i = @ + 1])

\* lines 74-78: an ignored directory is passed over
SkipIgnoredDir ==
  /\ HasEntry
  /\ Node(Entry).kind = "dir"
  /\ IsIgnored(BaseName(FullPath(Entry)))
  /\ stack' = NextEntry
  /\ visited' = Append(visited, Entry)
  /\ UNCHANGED <<fsVars, pc, accVars, outVars>>

\* lines 74-77: any other directory is analysed by a nested call
EnterDir ==
  /\ HasEntry
  /\ Node(Entry).kind = "dir"
  /\ ~IsIgnored(BaseName(FullPath(Entry)))
  /\ stack' = Append(stack, NewFrame(Entry))
  /\ visited' = Append(visited, Entry)
  /\ UNCHANGED <<fsVars, pc, accVars, outVars>>

\* line 79 as a plain else: what is no directory is taken for a file
OtherAsFile ==
  /\ HasEntry
  /\ Node(Entry).kind = "other"
  /\ totalFiles' = totalFiles + (IF IsCodeFile(FullPath(Entry)) THEN 1 ELSE 0)
  /\ stack' = NextEntry
  /\ visited' = Append(visited, Entry)
  /\ UNCHANGED <<fsVars, pc, totalLines, totalSize, fileLines, extensionsCount, outVars>>

\* line 79: an entry that is neither a directory nor a file
SkipOther ==
  /\ HasEntry
  /\ Node(Entry).kind = "other"
  /\ stack' = NextEntry
  /\ visited' = Append(visited, Entry)
  /\ UNCHANGED <<fsVars, pc, accVars, outVars>>

\* lines 79-83: a file whose extension is not in the allow-list
SkipFile ==
  /\ HasEntry
  /\ Node(Entry).kind = "file"
  /\ ~IsCodeFile(FullPath(Entry))
  /\ stack' = NextEntry
  /\ visited' = Append(visited, Entry)
  /\ UNCHANGED <<fsVars, pc, accVars, outVars>>

\* an accepted file is the entry at hand
AtCodeFile ==
  /\ HasEntry
  /\ Node(Entry).kind = "file"
  /\ IsCodeFile(FullPath(Entry))

\* lines 84-98: the file is read and its metadata fetched
VisitFile ==
  /\ AtCodeFile
  /\ Node(Entry).readOk /\ Node(Entry).statOk
  /\ totalFiles' = totalFiles + 1
  /\ totalLines' = totalLines + CountLines(Node(Entry).content)
  /\ fileLines' = Append(fileLines, [file |-> Str(FullPath(Entry)),
                                     lines |-> CountLines(Node(Entry).content)])
  /\ totalSize' = totalSize + Node(Entry).size
  /\ extensionsCount' = CountExtension(extensionsCount, ExtOf(FullPath(Entry)))
  /\ stack' = NextEntry
  /\ visited' = Append(visited, Entry)
  /\ UNCHANGED <<fsVars, pc, outVars>>

\* lines 84-88 without the try block: the rejection reaches main
ReadFailureIsFatal ==
  /\ AtCodeFile
  /\ ~Node(Entry).readOk
  /\ totalFiles' = totalFiles + 1
  /\ stack' = <<>>
  /\ stderr' = Append(stderr, Msg("error", 0, Str(FullPath(Entry))))
  /\ exitCode' = 1
  /\ pc' = "exited"
  /\ visited' = Append(visited, Entry)
  /\ UNCHANGED <<fsVars, totalLines, totalSize, fileLines, extensionsCount,
                 topFiles, topExtensions, stdout>>

\* lines 84-88, 99-101: readFile fails
VisitFileReadFails ==
  /\ AtCodeFile
  /\ ~Node(Entry).readOk
  /\ totalFiles' = totalFiles + 1
  /\ stderr' = Append(stderr, Msg("warning", 0, Str(FullPath(Entry))))
  /\ stack' = NextEntry
  /\ visited' = Append(visited, Entry)
  /\ UNCHANGED <<fsVars, pc, totalLines, totalSize, fileLines, extensionsCount,
                 topFiles, topExtensions, stdout, exitCode>>

\* line 84 moved to the end of the try block: the file is counted last
CountedAfterStat ==
  /\ AtCodeFile
  /\ Node(Entry).readOk /\ ~Node(Entry).statOk
  /\ totalLines' = totalLines + CountLines(Node(Entry).content)
  /\ fileLines' = Append(fileLines, [file |-> Str(FullPath(Entry)),
                                     lines |-> CountLines(Node(Entry).content)])
  /\ stderr' = Append(stderr, Msg("warning", 0, Str(FullPath(Entry))))
  /\ stack' = NextEntry
  /\ visited' = Append(visited, Entry)
  /\ UNCHANGED <<fsVars, pc, totalFiles, totalSize, extensionsCount,
                 topFiles, topExtensions, stdout, exitCode>>

\* lines 84-94, 99-101: readFile succeeds and stat fails
VisitFileStatFails ==
  /\ AtCodeFile
  /\ Node(Entry).readOk /\ ~Node(Entry).statOk
  /\ totalFiles' = totalFiles + 1
  /\ totalLines' = totalLines + CountLines(Node(Entry).content)
  /\ fileLines' = Append(fileLines, [file |-> Str(FullPath(Entry)),
                                     lines |-> CountLines(Node(Entry).content)])
  /\ stderr' = Append(stderr, Msg("warning", 0, Str(FullPath(Entry))))
  /\ stack' = NextEntry
  /\ visited' = Append(visited, Entry)
  /\ UNCHANGED <<fsVars, pc, totalSize, extensionsCount,
                 topFiles, topExtensions, stdout, exitCode>>

\* line 105: a nested call returns and the caller's loop goes on
ReturnFromDir ==
  /\ pc = "scan"
  /\ Top.listed /\ Top.i > Len(Top.entries)
  /\ Len(stack) > 1
  /\ stack' = [k \in 1..(Len(stack) - 1) |->
                 IF k = Len(stack) - 1
                 THEN [stack[k] EXCEPT !.i = @ + 1] ELSE stack[k]]
  /\ UNCHANGED <<fsVars, pc, accVars, outVars, visited>>

\* lines 107-117: the outermost call returns; fileLines is sorted in place,
\* the two top lists are cut and the result goes to main
FinishAnalyzeFolder ==
  /\ pc = "scan"
  /\ Top.listed /\ Top.i > Len(Top.entries)
  /\ Len(stack) = 1
  /\ fileLines' = SortByLines(fileLines)
  /\ topFiles' = Slice10(SortByLines(fileLines))
  /\ topExtensions' = Slice10(SortByCount(extensionsCount))
  /\ stack' = <<>>
  /\ pc' = "report"
  /\ UNCHANGED <<fsVars, totalLines, totalFiles, totalSize, extensionsCount,
                 stdout, stderr, exitCode, visited>>

Next ==
  \/ Usage
  \/ CallAnalyzeFolder
  \/ ListDir
  \/ ListDirFails
  \/ SkipIgnoredDir
  \/ EnterDir
  \/ SkipOther
  \/ SkipFile
  \/ VisitFile
  \/ VisitFileReadFails
  \/ VisitFileStatFails
  \/ ReturnFromDir
  \/ FinishAnalyzeFolder
  \/ PrintReport

Spec == Init /\ [][Next]_vars

\* the steps of a run on a root that holds one readable file
ClassifyNext ==
  \/ CallAnalyzeFolder
  \/ ListDir
  \/ SkipFile
  \/ VisitFile
  \/ FinishAnalyzeFolder
  \/ PrintReport

ClassifySpec == ClassifyInit /\ [][ClassifyNext]_vars

\* the event loop runs every continuation that is ready
FairSpec == Init /\ [][Next]_vars /\ WF_vars(Next)

(***************************************************************************)
(* What a tree holds, read off the tree alone.                             *)
(***************************************************************************)
Nodes == 1..Len(tree)

Min(a, b) == IF a < b THEN a ELSE b

RECURSIVE SumSeq(_)
SumSeq(q) == IF q = <<>> THEN 0 ELSE q[1] + SumSeq(Tail(q))

\* the members of the sequence q that satisfy the flags keep, in order
RECURSIVE Select(_, _)
Select(q, keep) ==
  IF q = <<>> THEN <<>>
  ELSE (IF keep[1] THEN <<q[1]>> ELSE <<>>) \o Select(Tail(q), Tail(keep))

\* the directories above node j
RECURSIVE Ancestors(_)
Ancestors(j) ==
  IF tree[j].parent = 0 THEN {} ELSE {tree[j].parent} \cup Ancestors(tree[j].parent)

IgnoredName(j) == Str(Node(j).name) \in {"node_modules", ".git"}

\* node j lies under a directory named node_modules or .git, at any depth
UnderIgnored(j) == \E a \in Ancestors(j) : IgnoredName(a)

\* the directories the scan has to list: neither ignored nor under an ignored one
ToList(j) == Node(j).kind = "dir" /\ ~IgnoredName(j) /\ ~UnderIgnored(j)

\* every directory the scan has to list can be listed
AllListable == rootListable /\ \A j \in Nodes : ToList(j) => Node(j).listable

\* the extension the program classifies node j by
Extension(j) == ExtOf(FullPath(j))

\* the accepted files: allow-listed extension, under no ignored directory
Accepted(j) ==
  /\ Node(j).kind = "file"
  /\ Extension(j) \in CODE_FILE_EXTENSIONS
  /\ ~UnderIgnored(j)

\* the accepted files whose content can be read
Readable(j) == Accepted(j) /\ Node(j).readOk

\* the accepted files whose content and metadata can both be read
Good(j) == Accepted(j) /\ Node(j).readOk /\ Node(j).statOk

\* the number of segments the newline character cuts a text into
NewlineSegments(text) == Cardinality({k \in 1..Len(text) : text[k] = "\n"}) + 1

\* analyzeFolder has returned its result
Completed == pc = "report" \/ (pc = "exited" /\ exitCode = 0)

\* the paths of the top-file candidates
CandidatePaths == {fileLines[k].file : k \in 1..Len(fileLines)}

(***************************************************************************)
(* C1: after a completed scan totalFiles is the number of files with an    *)
(* allow-listed extension that lie under no directory named node_modules   *)
(* or .git, at any depth; the other files change none of totalFiles,       *)
(* totalLines, totalSize, the top-file candidates and the extension        *)
(* counts: each of these is what the accepted files alone give.            *)
(***************************************************************************)
C1_OnlyAcceptedFilesCount ==
  Completed =>
    LET accepted == {j \in Nodes : Accepted(j)}
        readable == {j \in accepted : Node(j).readOk}
        good == {j \in readable : Node(j).statOk}
        extOf == [j \in good |-> Extension(j)]
    IN /\ totalFiles = Cardinality(accepted)
       /\ totalLines = SumSeq([j \in Nodes |->
                          IF j \in readable THEN NewlineSegments(Node(j).content) ELSE 0])
       /\ totalSize = SumSeq([j \in Nodes |-> IF j \in good THEN Node(j).size ELSE 0])
       /\ CandidatePaths = {Str(FullPath(j)) : j \in readable}
       /\ Len(fileLines) = Cardinality(readable)
       /\ {extensionsCount[k].ext : k \in 1..Len(extensionsCount)} = {extOf[j] : j \in good}
       /\ \A k \in 1..Len(extensionsCount) :
            extensionsCount[k].count =
              Cardinality({j \in good : extOf[j] = extensionsCount[k].ext})
       /\ \A k, m \in 1..Len(extensionsCount) :
            extensionsCount[k].ext = extensionsCount[m].ext => k = m

\* a completed scan of a tree with an allow-listed file under an ignored
\* directory that is not at the top of the tree
C1_Witness ==
  /\ Completed
  /\ \E j \in Nodes :
       /\ Node(j).kind = "file"
       /\ Extension(j) \in CODE_FILE_EXTENSIONS
       /\ \E a \in Ancestors(j) : IgnoredName(a) /\ tree[a].parent # 0

(***************************************************************************)
(* C2: a file whose content read or whose stat fails is counted in         *)
(* totalFiles and adds nothing to totalLines and totalSize: both are the   *)
(* sums over the accepted files for which the read and the stat succeeded. *)
(***************************************************************************)
C2_FailedFilesAddNothing ==
  Completed =>
    LET good == {j \in Nodes : Good(j)}
    IN /\ totalFiles = Cardinality({j \in Nodes : Accepted(j)})
       /\ totalLines = SumSeq([j \in Nodes |->
                          IF j \in good THEN NewlineSegments(Node(j).content) ELSE 0])
       /\ totalSize = SumSeq([j \in Nodes |-> IF j \in good THEN Node(j).size ELSE 0])

(***************************************************************************)
(* C3: after a completed scan topFiles has min(10, totalFiles) entries, in *)
(* non-increasing order of line count.                                     *)
(***************************************************************************)
NonIncreasing(q, key) == \A k \in 1..(Len(q) - 1) : q[k][key] >= q[k+1][key]

C3_TopFilesLengthOfTotalFiles ==
  Completed =>
    /\ Len(topFiles) = Min(10, totalFiles)
    /\ NonIncreasing(topFiles, "lines")

\* C3 as amended: after a completed scan topFiles has min(10, n) entries, n
\* the number of accepted files whose content was read, in non-increasing
\* order of line count
C3_TopFilesLengthOfReadFiles ==
  Completed =>
    /\ Len(topFiles) = Min(10, Cardinality({j \in Nodes : Readable(j)}))
    /\ NonIncreasing(topFiles, "lines")

\* a completed scan that read more than ten files, of different lengths
C3_Witness ==
  /\ Completed
  /\ Cardinality({j \in Nodes : Readable(j)}) > 10
  /\ topFiles[1].lines > topFiles[Len(topFiles)].lines

(***************************************************************************)
(* C4: after a completed scan topExtensions has min(10, d) entries, d the  *)
(* number of distinct extensions of the accepted files, in non-increasing  *)
(* order of file count.                                                    *)
(***************************************************************************)
C4_TopExtensionsLengthOfAccepted ==
  Completed =>
    /\ Len(topExtensions) =
         Min(10, Cardinality({Extension(j) : j \in {i \in Nodes : Accepted(i)}}))
    /\ NonIncreasing(topExtensions, "count")

\* C4 as amended: d is the number of distinct extensions of the accepted
\* files whose content read and stat both succeeded
C4_TopExtensionsLengthOfGood ==
  Completed =>
    /\ Len(topExtensions) =
         Min(10, Cardinality({Extension(j) : j \in {i \in Nodes : Good(i)}}))
    /\ NonIncreasing(topExtensions, "count")

\* a completed scan that counted more than ten extensions
C4_Witness ==
  /\ Completed
  /\ Len(extensionsCount) > 10
  /\ Len(topExtensions) = 10

(***************************************************************************)
(* C5: when listing the root or a directory the scan has to enter fails,   *)
(* the scan stops there: no further entry is visited, nothing is printed   *)
(* to standard output, the error goes to the error stream and the process  *)
(* exits with code 1.                                                      *)
(***************************************************************************)
\* the directories the scan has to list and cannot
Blocked == {j \in Nodes : ToList(j) /\ ~Node(j).listable}

\* the first of them in listing order
FirstBlocked == CHOOSE j \in Blocked : \A i \in Blocked : j <= i

\* the entries iterated over before the listing fails
VisitedBeforeAbort ==
  IF ~rootListable THEN <<>>
  ELSE Select([j \in Nodes |-> j],
              [j \in Nodes |-> j <= FirstBlocked /\ ~UnderIgnored(j)])

C5_ListingFailureAborts ==
  (hasArg /\ ~AllListable) =>
    /\ stdout = <<>>
    /\ pc # "report"
    /\ pc = "exited" =>
         /\ exitCode = 1
         /\ stderr # <<>>
         /\ stderr[Len(stderr)] =
              Msg("error", 0, IF rootListable THEN Str(FullPath(FirstBlocked)) ELSE ".")
         /\ \A k \in 1..(Len(stderr) - 1) : stderr[k].tag = "warning"
         /\ visited = VisitedBeforeAbort

\* the process has exited on a directory that could not be listed, leaving
\* an entry of the root unvisited
C5_Witness ==
  /\ pc = "exited"
  /\ hasArg /\ rootListable /\ ~AllListable
  /\ \E j \in Nodes : j > FirstBlocked /\ tree[j].parent = 0

(***************************************************************************)
(* C6: when every directory the scan has to list can be listed, a failing  *)
(* read or stat of a file is not fatal: the scan warns once per failing    *)
(* file, visits every remaining entry in listing order, and in the end the *)
(* report is printed and the process exits with code 0.                    *)
(***************************************************************************)
\* the entries a full scan iterates over, in listing order
AllVisited ==
  Select([j \in Nodes |-> j], [j \in Nodes |-> ~UnderIgnored(j)])

\* the accepted files whose read or stat fails, in listing order
Failing ==
  Select([j \in Nodes |-> j], [j \in Nodes |-> Accepted(j) /\ ~Good(j)])

ScanSucceeded ==
  /\ pc = "exited"
  /\ exitCode = 0
  /\ stdout # <<>>
  /\ visited = AllVisited
  /\ stderr = [k \in 1..Len(Failing) |-> Msg("warning", 0, Str(FullPath(Failing[k])))]

C6_FileFailuresAreNotFatal == (hasArg /\ AllListable) => <>ScanSucceeded

\* the process has exited with code 0 after a file failed and a later entry
\* was visited
C6_Witness ==
  /\ pc = "exited" /\ exitCode = 0
  /\ stderr # <<>>
  /\ \E k \in 1..(Len(visited) - 1) : Accepted(visited[k]) /\ ~Good(visited[k])

(***************************************************************************)
(* C8: every entry that is not a directory, symbolic links and special     *)
(* files included, is treated as a regular file: with an allow-listed      *)
(* extension it is counted in totalFiles and visited.                      *)
(***************************************************************************)
VisitedSet == {visited[k] : k \in 1..Len(visited)}

WarnedPaths == {stderr[k].s : k \in {i \in 1..Len(stderr) : stderr[i].tag = "warning"}}

C8_NonDirectoriesAreFiles ==
  pc = "scan" =>
    totalFiles = Cardinality({j \in VisitedSet :
                     Node(j).kind # "dir" /\ Extension(j) \in CODE_FILE_EXTENSIONS})

\* C8 as amended: every entry that is a regular file with an allow-listed
\* extension is counted in totalFiles and handed to the file visitor, which
\* aggregates it or skips it with a warning; an entry that is neither a
\* directory nor a regular file is passed over and changes nothing
C8_OnlyRegularFilesAreFiles ==
  pc = "scan" =>
    /\ totalFiles = Cardinality({j \in VisitedSet :
                        Node(j).kind = "file" /\ Extension(j) \in CODE_FILE_EXTENSIONS})
    /\ \A j \in VisitedSet :
         LET path == Str(FullPath(j)) IN
         /\ (Node(j).kind = "file" /\ Extension(j) \in CODE_FILE_EXTENSIONS)
              => (path \in CandidatePaths \/ path \in WarnedPaths)
         /\ Node(j).kind = "other"
              => (path \notin CandidatePaths /\ path \notin WarnedPaths)

\* the scan has passed over a symbolic link with an allow-listed extension
\* and has counted a regular file
C8_Witness ==
  /\ pc = "scan"
  /\ totalFiles >= 1
  /\ \E j \in VisitedSet : Node(j).kind = "other" /\ Extension(j) \in CODE_FILE_EXTENSIONS

(***************************************************************************)
(* C7: a file is classified by the text after the last "." of its name,    *)
(* lowercased, and by the empty string when the name has no "."; a name    *)
(* whose only "." is its first character is classified by the text after   *)
(* that dot; the file is accepted exactly when that text is allow-listed.  *)
(***************************************************************************)
\* the text after the last "." of name, empty when there is none
TextAfterLastDot(name) ==
  IF \A k \in 1..Len(name) : name[k] # "." THEN <<>>
  ELSE LET k == CHOOSE i \in 1..Len(name) :
                  name[i] = "." /\ \A m \in (i+1)..Len(name) : name[m] # "."
       IN SubSeq(name, k+1, Len(name))

C7_ClassifiedByTextAfterLastDot ==
  Completed =>
    \A j \in {i \in Nodes : Node(i).kind = "file" /\ ~UnderIgnored(i)} :
      /\ Extension(j) = ToLowerCase(TextAfterLastDot(Node(j).name))
      /\ Str(FullPath(j)) \in CandidatePaths
           <=> ToLowerCase(TextAfterLastDot(Node(j).name)) \in CODE_FILE_EXTENSIONS

(***************************************************************************)
(* C9: topFiles is the first ten of the candidates sorted by line count,   *)
(* descending and stable, topExtensions the first ten of the extension     *)
(* counters sorted by count, descending and stable: of two entries with    *)
(* equal metric the one met earlier comes first, and an entry is left out  *)
(* only when at least ten entries come before it in that order.            *)
(***************************************************************************)
\* the candidates of the tree: its accepted files whose content can be read
Cands == {j \in Nodes : Readable(j)}

LinesIn(j) == NewlineSegments(Node(j).content)

\* the extensions of the tree that get counted
GoodNodes == {j \in Nodes : Good(j)}

\* the rank of every member of S: the number of members in front of it, a
\* member being in front when its metric is greater, or equal and it was met
\* earlier
RankIn(S, metric, met) ==
  [x \in S |-> Cardinality({y \in S : \/ metric[y] > metric[x]
                                      \/ metric[y] = metric[x] /\ met[y] < met[x]})]

\* the function f, tabulated
Table(f) == CHOOSE g \in {f} : g = f

C9_TopListsAreStableTopTen ==
  Completed =>
    LET cands == Cands
        lines == Table([j \in cands |-> LinesIn(j)])
        fileRank == Table(RankIn(cands, lines, [j \in cands |-> j]))
        good == GoodNodes
        extOf == Table([j \in good |-> Extension(j)])
        exts == {extOf[j] : j \in good}
        count == Table([e \in exts |-> Cardinality({j \in good : extOf[j] = e})])
        first == Table([e \in exts |-> CHOOSE j \in good :
                                   extOf[j] = e /\ \A i \in good : extOf[i] = e => j <= i])
        extRank == Table(RankIn(exts, count, first))
    IN /\ Len(topFiles) = Cardinality({j \in cands : fileRank[j] < 10})
       /\ \A j \in cands :
            fileRank[j] < 10 =>
              topFiles[fileRank[j] + 1] = [file |-> Str(FullPath(j)), lines |-> lines[j]]
       /\ Len(topExtensions) = Cardinality({e \in exts : extRank[e] < 10})
       /\ \A e \in exts :
            extRank[e] < 10 =>
              topExtensions[extRank[e] + 1] = [ext |-> e, count |-> count[e]]

\* a completed scan whose sort moved a longer file forward, whose cut fell
\* between two files of equal length, and which counted two extensions
\* equally often behind a more frequent one met later
C9_Witness ==
  /\ Completed
  /\ Len(fileLines) > 10
  /\ topFiles[1].lines > topFiles[10].lines
  /\ fileLines[11].lines = topFiles[10].lines
  /\ \E j \in Cands : LinesIn(j) < topFiles[1].lines /\ Str(FullPath(j)) = topFiles[2].file /\ j = 1
  /\ Len(topExtensions) >= 3
  /\ topExtensions[1].count > topExtensions[2].count
  /\ topExtensions[2].count = topExtensions[3].count
  /\ extensionsCount[1].ext # topExtensions[1].ext

(***************************************************************************)
(* C10: in every state of a scan the accumulators are consistent: the sum  *)
(* of the extension counts is at most the number of top-file candidates,   *)
(* which is at most totalFiles; totalLines is the sum of the candidates'   *)
(* line counts; no accumulator is negative, and none decreases from one    *)
(* step to the next.                                                       *)
(***************************************************************************)
ExtCountSum == SumSeq([k \in 1..Len(extensionsCount) |-> extensionsCount[k].count])

AccConsistent ==
  /\ ExtCountSum <= Len(fileLines)
  /\ Len(fileLines) <= totalFiles
  /\ totalLines = SumSeq([k \in 1..Len(fileLines) |-> fileLines[k].lines])
  /\ totalLines >= 0 /\ totalFiles >= 0 /\ totalSize >= 0
  /\ \A k \in 1..Len(extensionsCount) : extensionsCount[k].count >= 0
  /\ \A k \in 1..Len(fileLines) : fileLines[k].lines >= 0

AccNonDecreasing ==
  /\ totalLines' >= totalLines
  /\ totalFiles' >= totalFiles
  /\ totalSize' >= totalSize
  /\ Len(fileLines') >= Len(fileLines)
  /\ Len(extensionsCount') >= Len(extensionsCount)
  /\ \A k \in 1..Len(extensionsCount) :
       /\ extensionsCount'[k].ext = extensionsCount[k].ext
       /\ extensionsCount'[k].count >= extensionsCount[k].count

C10_AccumulatorsConsistent ==
  [][AccConsistent /\ AccConsistent' /\ AccNonDecreasing]_vars

\* a scan in which a read failed, a stat failed and a file went through
C10_Witness ==
  /\ pc = "scan"
  /\ 0 < ExtCountSum
  /\ ExtCountSum < Len(fileLines)
  /\ Len(fileLines) < totalFiles

=============================================================================
